---- MODULE Spec2Model ----
(***************************************************************************)
(* Podcast-Maker: the loudness-normalisation and assembly pipeline of      *)
(* app.py (process_episode and the three ffmpeg helpers it drives).        *)
(*                                                                         *)
(* Text the code looks into (the analyzer's stderr, the input_i value) is  *)
(* modelled at the level the code inspects it: stderr is a sequence of     *)
(* tokens (an opening brace, a closing brace, a JSON member, other text),  *)
(* an input_i value is a sequence of characters.  Loudness values are      *)
(* integers in thousandths of a LUFS.  Paths are records (dir, name).      *)
(* loudnorm prints every member of its JSON block as a JSON string, so     *)
(* the members here carry strings; a missing member reads as None.         *)
(***************************************************************************)
EXTENDS Integers, Sequences, FiniteSets, TLC

VARIABLES
    pc,             \* position of the current process_episode call
    exists,         \* roles whose clip file exists in the episode folder
    target,         \* the file at the output path once the concatenation has run
    chapter_number, \* argument of the call
    ffmpeg,         \* local: resolved tool path, or NoTool
    baseline_i,     \* local: measured loudness of jingle_vorne, in 1/1000 LUFS
    stderr,         \* the diagnostic stream captured by the analysis of this call
    measurements,   \* analysis invocations of this call, as a test double records them
    workspace,      \* the TemporaryDirectory of the call: state and files in it
    normalized,     \* local dict: role -> normalized wav path
    calls,          \* normalize invocations of this call, with their exit status
    concat_calls,   \* concatenate invocations of this call
    status,         \* messages handed to status_callback
    exc,            \* the exception the call raised, NoExc if none
    result,         \* the path the call returned, NoPath if none
    last_failure    \* the last failure the caller has seen

vars == <<pc, exists, target, chapter_number, ffmpeg, baseline_i, stderr,
          measurements, workspace, normalized, calls, concat_calls, status, exc,
          result, last_failure>>

\* ----------------------------- bounds -----------------------------

\* segments (stray tokens or whole JSON blocks) in one diagnostic stream
MaxSegs == 3
\* chapter numbers a caller passes (the GUI allows 1..9999)
MaxChapter == 2

\* ----------------------------- Config -----------------------------

\* keys of the files dict of process_episode, in insertion order
Roles == <<"intro", "vorab", "kapitel", "outro", "jingle_vorne", "jingle_hinten">>

RoleSet == {Roles[i] : i \in DOMAIN Roles}

\* variant: every clip once, the jingles not repeated
ConcatOrderNoReuse ==
    <<"jingle_vorne", "intro", "jingle_hinten", "vorab", "kapitel", "outro">>

CONCAT_ORDER ==
    <<"jingle_vorne", "intro", "jingle_hinten", "vorab", "kapitel",
      "jingle_vorne", "outro", "jingle_hinten">>

episode_folder == "episode"

output_folder == "output"

NoPath == [dir |-> "", name |-> <<>>]

\* os.path.join(dir, name); a file name is kept as its pieces
Join(dir, name) == [dir |-> dir, name |-> name]

\* os.path.join(episode_folder, "<role>.mp3")
ClipPath(role) == Join(episode_folder, <<role, ".mp3">>)

\* os.path.join(td, f"{name}_norm.wav")
NormPath(role) == Join("td", <<role, "_norm.wav">>)

\* os.path.join(output_folder, f"Kapitel {chapter_number}.mp3")
OutputPath(n) == [dir |-> output_folder, name |-> <<"Kapitel ", ".mp3">>, chapter |-> n]

\* ----------------------------- text -----------------------------

Null == [t |-> "null", s |-> <<>>]

Str(chars) == [t |-> "str", s |-> chars]

LB == [k |-> "lb", key |-> "", val |-> Null]

RB == [k |-> "rb", key |-> "", val |-> Null]

TXT == [k |-> "txt", key |-> "", val |-> Null]

Member(key, val) == [k |-> "member", key |-> key, val |-> val]

\* the letters that occur in the input_i texts of the model
UpperCase == <<"A", "B", "C", "N">>

LowerCase == <<"a", "b", "c", "n">>

\* str.lower() on one character
LowerChar(c) ==
    IF \E i \in DOMAIN UpperCase : UpperCase[i] = c
    THEN LowerCase[CHOOSE i \in DOMAIN UpperCase : UpperCase[i] = c]
    ELSE c

\* str.lower()
Lower(s) == [i \in DOMAIN s |-> LowerChar(s[i])]

Digits == <<"0", "1", "2", "3", "4", "5", "6", "7", "8", "9">>

IsDigit(c) == \E i \in DOMAIN Digits : Digits[i] = c

DigitVal(c) == (CHOOSE i \in DOMAIN Digits : Digits[i] = c) - 1

RECURSIVE DigitsVal(_)
DigitsVal(s) ==
    IF s = <<>> THEN 0
    ELSE 10 * DigitsVal(SubSeq(s, 1, Len(s) - 1)) + DigitVal(s[Len(s)])

\* the unsigned part of a decimal literal: digits, optionally "." and up to three digits
DotAt(s) == IF \E i \in DOMAIN s : s[i] = "." THEN CHOOSE i \in DOMAIN s : s[i] = "." ELSE 0

IsUnsignedDecimal(s) ==
    LET d == DotAt(s) IN
    /\ s # <<>>
    /\ IF d = 0
       THEN \A i \in DOMAIN s : IsDigit(s[i])
       ELSE /\ d > 1
            /\ d < Len(s)
            /\ Len(s) - d <= 3
            /\ \A i \in DOMAIN s : i # d => IsDigit(s[i])

Pow10(n) == IF n = 0 THEN 1 ELSE IF n = 1 THEN 10 ELSE IF n = 2 THEN 100 ELSE 1000

UnsignedDecimal(s) ==
    LET d == DotAt(s) IN
    IF d = 0 THEN 1000 * DigitsVal(s)
    ELSE 1000 * DigitsVal(SubSeq(s, 1, d - 1))
         + DigitsVal(SubSeq(s, d + 1, Len(s))) * Pow10(3 - (Len(s) - d))

Unsigned(s) == IF s # <<>> /\ s[1] \in {"-", "+"} THEN Tail(s) ELSE s

\* float(s) succeeds: the strings of the model are decimal literals or words
\* that are no number (no exponents, no "inf", no surrounding blanks)
IsFloatText(s) == IsUnsignedDecimal(Unsigned(s))

\* float(s), in thousandths
ParseFloat(s) ==
    IF s # <<>> /\ s[1] = "-" THEN 0 - UnsignedDecimal(Unsigned(s))
    ELSE UnsignedDecimal(Unsigned(s))

\* f"{x:.2f}": x in thousandths to the nearest hundredth (the values of the
\* model have no thousandths digit 5, so no tie arises)
Fmt2(x) == IF x >= 0 THEN (x + 5) \div 10 ELSE 0 - ((5 - x) \div 10)

\* ----------------------------- exceptions -----------------------------

\* an exception: its class, the line that raises it, the fixed head of its
\* message and the values formatted into the message
Raise(kind, site, head, detail) ==
    [kind |-> kind, site |-> site, head |-> head, detail |-> detail]

NoExc == Raise("", 0, "", <<>>)

ToolNotFound == Raise("RuntimeError", 135, "ffmpeg nicht gefunden.", <<>>)

MissingFilesError(missing) == Raise("RuntimeError", 157, "Fehlende Dateien:", missing)

AnalysisFailed(infile, err) ==
    Raise("RuntimeError", 69, "ffmpeg loudness analysis failed for", <<infile, err>>)

NoJsonFound(infile, err) ==
    Raise("RuntimeError", 73, "Could not parse loudnorm JSON for", <<infile, err>>)

JSONDecodeError(doc) == Raise("JSONDecodeError", 74, "Expecting", <<doc>>)

InvalidLoudnessError(infile) ==
    Raise("RuntimeError", 77, "Invalid loudness (input_i) for", <<infile>>)

FloatValueError(text) ==
    Raise("ValueError", 78, "could not convert string to float:", <<text>>)

\* variant: a class of its own for the failed normalization
NormalizeFailedTyped(infile, err) ==
    Raise("NormalizationError", 97, "ffmpeg normalize failed for", <<infile, err>>)

NormalizeFailedError(infile, err) ==
    Raise("RuntimeError", 97, "ffmpeg normalize failed for", <<infile, err>>)

ConcatFailedError(err) ==
    Raise("RuntimeError", 122, "ffmpeg concatenation failed:", <<err>>)

\* ----------------------------- ffmpeg helpers -----------------------------

NoTool == "None"

\* _which_or_bundled: the bundled binary first, then the search path
WhichOrBundled(found) ==
    IF "bundled" \in found THEN "bin/ffmpeg"
    ELSE IF "path" \in found THEN "/usr/bin/ffmpeg"
    ELSE NoTool

ExitCodes == {0, 1}

\* diagnostic text of a failed normalize or concatenate run
Diags == {"Invalid data found", "Conversion failed"}

\* re.findall(r"\{[\s\S]*?\}", err): from position i, the first opening brace
\* and the first closing brace after it make a match; the scan resumes behind it
RECURSIVE FindAllFrom(_, _)
FindAllFrom(s, i) ==
    LET opens == {a \in i..Len(s) : s[a] = LB} IN
    IF opens = {} THEN <<>>
    ELSE LET a == CHOOSE x \in opens : \A y \in opens : x <= y
             closes == {b \in (a + 1)..Len(s) : s[b] = RB}
         IN IF closes = {} THEN <<>>
            ELSE LET b == CHOOSE x \in closes : \A y \in closes : x <= y
                 IN <<SubSeq(s, a, b)>> \o FindAllFrom(s, b + 1)

FindAll(s) == FindAllFrom(s, 1)

\* variant: m[0]
FirstMatch(m) == m[1]

\* m[-1]
LastMatch(m) == m[Len(m)]

\* json.loads accepts the text: an object whose braces enclose members only
IsJson(doc) == \A i \in 2..(Len(doc) - 1) : doc[i].k = "member"

\* json.loads(doc): a dict; of a repeated key the last member wins
JsonLoads(doc) ==
    LET at == {i \in 2..(Len(doc) - 1) : TRUE}
        keys == {doc[i].key : i \in at}
    IN [key \in keys |->
          doc[CHOOSE i \in at : doc[i].key = key
                                /\ \A j \in at : doc[j].key = key => j <= i].val]

\* j.get(key, None); JSON null is None as well
Get(j, key) == IF key \in DOMAIN j THEN j[key] ELSE Null

\* variant: the comparison without lower()
InvalidLoudnessCaseSensitive(input_i) ==
    input_i = Null \/ input_i.s = <<"n", "a", "n">>

\* input_i is None or str(input_i).lower() == "nan"
InvalidLoudness(input_i) ==
    input_i = Null \/ Lower(input_i.s) = <<"n", "a", "n">>

Returned(v) == [ok |-> TRUE, value |-> v, exc |-> NoExc]

Raised(e) == [ok |-> FALSE, value |-> 0, exc |-> e]

\* measure_integrated_loudness, given what run_cmd returned
measure_integrated_loudness(infile, rc, err) ==
    IF rc # 0 THEN Raised(AnalysisFailed(infile, err))
    ELSE LET m == FindAll(err) IN
         IF m = <<>> THEN Raised(NoJsonFound(infile, err))
         ELSE LET doc == LastMatch(m) IN
              IF ~IsJson(doc) THEN Raised(JSONDecodeError(doc))
              ELSE LET input_i == Get(JsonLoads(doc), "input_i") IN
                   IF InvalidLoudness(input_i) THEN Raised(InvalidLoudnessError(infile))
                   ELSE IF ~IsFloatText(input_i.s) THEN Raised(FloatValueError(input_i.s))
                   ELSE Returned(ParseFloat(input_i.s))

\* variant: the exit status of the normalization is not looked at
NormalizeIgnoresExit(rc) == FALSE

\* normalize_to_target_i: rc != 0
NormalizeFailed(rc) == rc # 0

\* concatenate_audio: rc != 0
ConcatFailed(rc) == rc # 0

\* ----------------------------- the analyzer's output -----------------------------

S_1623 == <<"-", "1", "6", ".", "2", "3">>

S_23456 == <<"-", "2", "3", ".", "4", "5", "6">>

S_nan == <<"n", "a", "n">>

S_NaN == <<"N", "a", "N">>

S_abc == <<"a", "b", "c">>

\* input_i as loudnorm can print it: a decimal, nan in two spellings, no number
InputIValues == {Str(S_1623), Str(S_nan), Str(S_NaN), Str(S_abc)}

\* what one segment of the stream can be: text, a stray brace, a JSON block
SegPool ==
    {<<TXT>>, <<LB>>, <<RB>>}
    \cup {<<LB, Member("input_i", v), RB>> : v \in InputIValues}
    \cup {<<LB, Member("output_i", Str(S_1623)), RB>>,
          <<LB, Member("input_i", Str(S_23456)), Member("input_tp", Str(S_1623)), RB>>}

RECURSIVE Flatten(_)
Flatten(ss) == IF ss = <<>> THEN <<>> ELSE Head(ss) \o Flatten(Tail(ss))

Streams == {Flatten(ss) : ss \in UNION {[1..n -> SegPool] : n \in 0..MaxSegs}}

\* what a failed analysis leaves on stderr: the code only copies it into the message
FailStreams == {Flatten(ss) : ss \in UNION {[1..n -> SegPool] : n \in 0..1}}

\* ----------------------------- process_episode -----------------------------

\* variant: the clips are checked before the tool is looked for
ValidateFirst == <<"validate", "locate", "measure">>

\* the steps of process_episode before the workspace is acquired, in code order
Order == <<"locate", "validate", "measure">>

NextStep(step) == Order[(CHOOSE i \in DOMAIN Order : Order[i] = step) + 1]

\* variant: the check stops at the first missing clip
FirstMissingOnly(ex) ==
    LET all == SelectSeq(Roles, LAMBDA r : r \notin ex)
    IN IF all = <<>> THEN <<>> ELSE <<<<all[1], ".mp3">>>>

\* the missing list: f"{name}.mp3" of every clip that does not exist, in dict order
MissingFiles(ex) ==
    LET all == SelectSeq(Roles, LAMBDA r : r \notin ex)
    IN [i \in DOMAIN all |-> <<all[i], ".mp3">>]

\* variant: the I=-16 of the analysis filter as target instead of the baseline
NormalizeArgsFixedTarget(name, target_i) ==
    [infile |-> ClipPath(name), outfile |-> NormPath(name), target_i |-> 0 - 16000,
     I |-> Fmt2(0 - 16000)]

\* the arguments of normalize_to_target_i for one clip, and the I= value of
\* the filter it builds from them (in hundredths)
NormalizeArgs(name, target_i) ==
    [infile |-> ClipPath(name), outfile |-> NormPath(name), target_i |-> target_i,
     I |-> Fmt2(target_i)]

\* variant: the directory is left behind
NoCleanup(ws) == ws

\* TemporaryDirectory.__exit__: the directory and all it holds are removed
TemporaryDirectoryExit(ws) == [state |-> "deleted", files |-> {}]

NoWorkspace == [state |-> "none", files |-> {}]

NoFailure == [site |-> 0, kind |-> "", head |-> ""]

EmptyDict == [r \in {} |-> NoPath]

Init ==
    /\ pc = "idle"
    /\ exists \in SUBSET RoleSet
    /\ target = "unread"
    /\ chapter_number = 1
    /\ ffmpeg = NoTool
    /\ baseline_i = 0
    /\ stderr = <<>>
    /\ measurements = <<>>
    /\ workspace = NoWorkspace
    /\ normalized = EmptyDict
    /\ calls = <<>>
    /\ concat_calls = <<>>
    /\ status = <<>>
    /\ exc = NoExc
    /\ result = NoPath
    /\ last_failure = NoFailure

\* between two calls the user adds clips to the episode folder or removes some
Environment ==
    /\ pc = "idle"
    /\ \E ex \in SUBSET RoleSet :
          /\ ex # exists
          /\ exists' = ex
    /\ UNCHANGED <<pc, target, chapter_number, ffmpeg, baseline_i, stderr, measurements,
                   workspace, normalized, calls, concat_calls, status, exc, result,
                   last_failure>>

\* a caller invokes process_episode(episode_folder, chapter_number, output_folder, cb)
Call ==
    /\ pc = "idle"
    /\ pc' = Order[1]
    /\ chapter_number' \in 1..MaxChapter
    /\ UNCHANGED <<exists, target, ffmpeg, baseline_i, stderr, measurements,
                   workspace, normalized, calls, concat_calls, status, exc, result,
                   last_failure>>

\* ffmpeg = _which_or_bundled(...); raise if not found
Locate ==
    /\ pc = "locate"
    /\ \E found \in SUBSET {"bundled", "path"} : ffmpeg' = WhichOrBundled(found)
    /\ IF ffmpeg' = NoTool
       THEN pc' = "raised" /\ exc' = ToolNotFound
       ELSE pc' = NextStep("locate") /\ exc' = exc
    /\ UNCHANGED <<exists, target, chapter_number, baseline_i, stderr,
                   measurements, workspace, normalized, calls, concat_calls, status,
                   result, last_failure>>

\* collect every missing clip, raise if there is one
Validate ==
    /\ pc = "validate"
    /\ LET missing == MissingFiles(exists) IN
       IF missing # <<>>
       THEN pc' = "raised" /\ exc' = MissingFilesError(missing)
       ELSE pc' = NextStep("validate") /\ exc' = exc
    /\ UNCHANGED <<exists, target, chapter_number, ffmpeg, baseline_i, stderr,
                   measurements, workspace, normalized, calls, concat_calls, status,
                   result, last_failure>>

\* baseline_i = measure_integrated_loudness(ffmpeg, files["jingle_vorne"])
Measure ==
    /\ pc = "measure"
    /\ status' = Append(status, <<"Messe Baseline", "jingle_vorne">>)
    /\ \E rc \in ExitCodes, err \in Streams :
          /\ rc # 0 => err \in FailStreams
          /\ LET infile == ClipPath("jingle_vorne")
              r == measure_integrated_loudness(infile, rc, err)
             IN /\ stderr' = err
                /\ measurements' = Append(measurements,
                                          [infile |-> infile, rc |-> rc, ok |-> r.ok,
                                           value |-> r.value])
                /\ IF r.ok
                   THEN pc' = "tempdir" /\ baseline_i' = r.value /\ exc' = exc
                   ELSE pc' = "raised" /\ baseline_i' = baseline_i /\ exc' = r.exc
    /\ UNCHANGED <<exists, target, chapter_number, ffmpeg, workspace,
                   normalized, calls, concat_calls, result, last_failure>>

\* with tempfile.TemporaryDirectory(prefix="podcast_") as td; the analyzer's
\* stderr was a local of measure_integrated_loudness and is gone
EnterWorkspace ==
    /\ pc = "tempdir"
    /\ workspace' = [state |-> "live", files |-> {}]
    /\ stderr' = <<>>
    /\ pc' = "normalize"
    /\ UNCHANGED <<exists, target, chapter_number, ffmpeg, baseline_i,
                   measurements, normalized, calls, concat_calls, status, exc, result,
                   last_failure>>

\* one pass of the loop over unique_files
Normalize ==
    /\ pc = "normalize"
    /\ LET name == Roles[Cardinality(DOMAIN normalized) + 1]
           args == NormalizeArgs(name, baseline_i)
       IN /\ status' = Append(status, <<"Normalisiere", name>>)
          /\ \E rc \in ExitCodes :
                /\ calls' = Append(calls, [infile |-> args.infile, outfile |-> args.outfile,
                                           target_i |-> args.target_i, I |-> args.I,
                                           rc |-> rc])
                /\ IF NormalizeFailed(rc)
                   THEN \E err \in Diags, wrote \in BOOLEAN :
                           /\ exc' = NormalizeFailedError(args.infile, err)
                           /\ workspace' = TemporaryDirectoryExit(
                                  [workspace EXCEPT !.files =
                                      IF wrote THEN @ \cup {args.outfile} ELSE @])
                           /\ normalized' = normalized
                           /\ pc' = "raised"
                   ELSE /\ exc' = exc
                        /\ workspace' = [workspace EXCEPT !.files = @ \cup {args.outfile}]
                        /\ normalized' = [r \in DOMAIN normalized \cup {name} |->
                                            IF r = name THEN args.outfile ELSE normalized[r]]
                        /\ pc' = IF DOMAIN normalized' = RoleSet THEN "concat" ELSE "normalize"
    /\ UNCHANGED <<exists, target, chapter_number, ffmpeg, baseline_i, stderr,
                   measurements, concat_calls, result, last_failure>>

\* build the list, concatenate, return; the with block ends either way
Concatenate ==
    /\ pc = "concat"
    /\ LET concat_files == [k \in DOMAIN CONCAT_ORDER |-> normalized[CONCAT_ORDER[k]]]
           output_path == OutputPath(chapter_number)
       IN /\ status' = Append(status, <<"Fuege Audio zusammen", "">>)
          /\ \E rc \in ExitCodes, before \in {"absent", "present"}, err \in Diags \cup {""} :
                /\ (rc = 0) = (err = "")
                /\ concat_calls' = Append(concat_calls,
                                          [input_files |-> concat_files,
                                           output_path |-> output_path, rc |-> rc,
                                           err |-> err, before |-> before])
                /\ IF ConcatFailed(rc)
                   THEN \E left \in {before, "partial"} :
                           /\ target' = left
                           /\ exc' = ConcatFailedError(err)
                           /\ result' = result
                           /\ pc' = "raised"
                   ELSE /\ target' = "complete"
                        /\ exc' = exc
                        /\ result' = output_path
                        /\ pc' = "returned"
          /\ workspace' = TemporaryDirectoryExit(workspace)
    /\ UNCHANGED <<exists, chapter_number, ffmpeg, baseline_i, stderr,
                   measurements, normalized, calls, last_failure>>

\* the caller has the path or the exception; the call's locals are gone
Receive ==
    /\ pc \in {"returned", "raised"}
    /\ last_failure' = IF pc = "raised"
                       THEN [site |-> exc.site, kind |-> exc.kind, head |-> exc.head]
                       ELSE last_failure
    /\ pc' = "idle"
    /\ chapter_number' = 1
    /\ ffmpeg' = NoTool
    /\ baseline_i' = 0
    /\ stderr' = <<>>
    /\ measurements' = <<>>
    /\ workspace' = NoWorkspace
    /\ normalized' = EmptyDict
    /\ calls' = <<>>
    /\ concat_calls' = <<>>
    /\ status' = <<>>
    /\ exc' = NoExc
    /\ result' = NoPath
    /\ target' = "unread"
    /\ UNCHANGED exists

Next ==
    \/ Environment
    \/ Call
    \/ Locate
    \/ Validate
    \/ Measure
    \/ EnterWorkspace
    \/ Normalize
    \/ Concatenate
    \/ Receive

Spec == Init /\ [][Next]_vars

\* ----------------------------- properties -----------------------------

Finished == pc \in {"returned", "raised"}

\* the JSON object literals of a stream, stated without the scan: every
\* opening brace, members only, closing brace
Literals(s) ==
    UNION {{<<a, b>> : b \in {c \in (a + 1)..Len(s) :
                                /\ s[c] = RB
                                /\ \A i \in (a + 1)..(c - 1) : s[i].k = "member"}} :
           a \in {c \in DOMAIN s : s[c] = LB}}

\* the last of them in stream order
LastLiteral(s) ==
    LET all == Literals(s) IN CHOOSE p \in all : \A q \in all : q[1] <= p[1]

\* the input_i members of a literal, in order
InputIs(s, p) ==
    SelectSeq(SubSeq(s, p[1] + 1, p[2] - 1), LAMBDA m : m.key = "input_i")

\* the literal has no input_i, or its input_i is null or the text nan in any case
NanOrMissing(s, p) ==
    LET ins == InputIs(s, p) IN
    \/ ins = <<>>
    \/ ins[Len(ins)].val = Null
    \/ ins[Len(ins)].val.s \in {S_nan, S_NaN}

\* C1: once a call that acquired a workspace has returned or raised, the
\* workspace directory is deleted and no intermediate file is left in it.
C1_WorkspaceGone ==
    (Finished /\ workspace.state # "none")
        => (workspace.state = "deleted" /\ workspace.files = {})

C1_Witness ==
    /\ pc = "raised"
    /\ exc.site = 122
    /\ Len(calls) = 6
    /\ workspace.state = "deleted"

\* C2: a failed concatenation raises with the tool's diagnostic text verbatim
\* in the message, and afterwards no file is at the output path, whatever was
\* there before and whatever the tool wrote.
C2_NoOutputAfterFailure ==
    (pc = "raised" /\ exc.site = 122)
        => (/\ exc.detail = <<concat_calls[1].err>>
            /\ concat_calls[1].err \in Diags
            /\ target = "absent")

\* C3 as claimed: whenever clips are missing the call fails with the
\* missing-files error naming all of them, and nothing was invoked.
C3_AlwaysMissingFilesError ==
    (pc = "raised" /\ exists # RoleSet)
        => (/\ exc.site = 157
            /\ {exc.detail[i] : i \in DOMAIN exc.detail}
                   = {<<r, ".mp3">> : r \in RoleSet \ exists}
            /\ measurements = <<>> /\ calls = <<>> /\ concat_calls = <<>>)

\* C3 amended: with clips missing, no measurement, normalization or
\* concatenation is invoked and no workspace acquired; the call fails, with the
\* missing-files error naming every missing clip when the tool was resolved and
\* with the tool-not-found error when it was not.
C3_MissingFiles ==
    exists # RoleSet
        => (/\ measurements = <<>> /\ calls = <<>> /\ concat_calls = <<>>
            /\ workspace.state = "none"
            /\ pc # "returned"
            /\ pc = "raised"
                 => IF ffmpeg = NoTool
                    THEN exc.site = 135
                    ELSE /\ exc.site = 157
                         /\ exc.head = "Fehlende Dateien:"
                         /\ {exc.detail[i] : i \in DOMAIN exc.detail}
                                = {<<r, ".mp3">> : r \in RoleSet \ exists})

C3_Witness ==
    /\ pc = "raised"
    /\ exc.site = 157
    /\ RoleSet \ exists = {"outro", "jingle_hinten"}
    /\ Len(exc.detail) = 2

\* C4: every normalize call gets as target the one value the single analysis
\* of jingle_vorne returned; the six calls are for the six clips.
C4_SingleTarget ==
    /\ Len(measurements) <= 1
    /\ \A i \in DOMAIN calls :
          /\ Len(measurements) = 1
          /\ measurements[1].infile = ClipPath("jingle_vorne")
          /\ measurements[1].ok
          /\ calls[i].target_i = measurements[1].value
          /\ calls[i].infile = ClipPath(Roles[i])
    /\ Len(calls) <= 6

C4_Witness ==
    /\ Len(calls) = 6
    /\ \A i \in DOMAIN calls : calls[i].rc = 0 /\ calls[i].target_i = 0 - 23456

ClaimedOrder ==
    <<"jingle_vorne", "intro", "jingle_hinten", "vorab", "kapitel",
      "jingle_vorne", "outro", "jingle_hinten">>

\* C5: the concatenator gets exactly 8 files in the order jingle_vorne, intro,
\* jingle_hinten, vorab, kapitel, jingle_vorne, outro, jingle_hinten; entries 1
\* and 6 are one file, entries 3 and 8 are one file, and each entry is the
\* output of a successful normalize call of this run for that clip.
C5_AssemblyOrder ==
    \A c \in DOMAIN concat_calls :
        LET in == concat_calls[c].input_files IN
        /\ Len(in) = 8
        /\ in[1] = in[6]
        /\ in[3] = in[8]
        /\ \A k \in 1..8 :
              /\ in[k] \in workspace.files \/ workspace.state = "deleted"
              /\ \E i \in DOMAIN calls :
                    /\ calls[i].rc = 0
                    /\ calls[i].infile = ClipPath(ClaimedOrder[k])
                    /\ calls[i].outfile = in[k]
        /\ concat_calls[c].output_path = OutputPath(chapter_number)

C5_Witness ==
    /\ pc = "returned"
    /\ Len(concat_calls) = 1
    /\ result = OutputPath(2)

\* every brace of the stream opens or closes a JSON literal
NoStrayBrace(s) ==
    LET all == Literals(s) IN
    \A i \in DOMAIN s :
        s[i] \in {LB, RB} => \E p \in all : i \in {p[1], p[2]}

C7_LastBlockWins ==
    pc = "tempdir"
        => (/\ Literals(stderr) # {}
            /\ LET ins == InputIs(stderr, LastLiteral(stderr)) IN
               /\ ins # <<>>
               /\ baseline_i = ParseFloat(ins[Len(ins)].val.s)
               /\ measurements[1].value = baseline_i)

C7_Witness ==
    /\ pc = "tempdir"
    /\ Cardinality(Literals(stderr)) = 3
    /\ baseline_i = 0 - 23456
    /\ \E p \in Literals(stderr) :
          InputIs(stderr, p) = <<Member("input_i", Str(S_1623))>>

\* the cause of a failure, as the specification divides them
CauseOf(site) ==
    CASE site = 135 -> "tool"
      [] site = 157 -> "missing"
      [] site = 69 -> "analysis"
      [] site = 97 -> "normalization"
      [] site = 122 -> "concatenation"
      [] OTHER -> "parse"

\* C8 as claimed: two failures of different causes never surface with the
\* same kind.
C8_KindsDistinguish ==
    (pc = "raised" /\ last_failure.site # 0
        /\ CauseOf(last_failure.site) # CauseOf(exc.site))
        => last_failure.kind # exc.kind

\* C8 amended: every failure surfaces as one exception with one message;
\* missing files, an unresolvable tool, a non-zero exit of analysis,
\* normalization or concatenation, a stream without a JSON block and a missing
\* or nan input_i all have the kind RuntimeError and differ only in the leading
\* text of the message; a last block that is not JSON surfaces as
\* JSONDecodeError, an input_i that is no number as ValueError.
C8_OneKindManyMessages ==
    /\ (pc = "raised") = (exc.site # 0)
    /\ pc = "raised"
         => (/\ exc.site \in {135, 157, 69, 73, 77, 97, 122} => exc.kind = "RuntimeError"
             /\ exc.site = 74 => exc.kind = "JSONDecodeError"
             /\ exc.site = 78 => exc.kind = "ValueError"
             /\ exc.site \in {135, 157, 69, 73, 74, 77, 78, 97, 122}
             /\ last_failure.site \notin {0, exc.site} => last_failure.head # exc.head)

C8_Witness ==
    /\ pc = "raised"
    /\ exc.site = 97
    /\ last_failure.site = 157
    /\ last_failure.kind = exc.kind

\* C9: the concatenation starts only after six normalizations that all exited
\* zero; a failed normalization is the last call of the run: the run has
\* failed with it, no clip is normalized twice, and nothing is concatenated.
C9_FailFast ==
    /\ concat_calls # <<>>
         => (Len(calls) = 6 /\ \A i \in DOMAIN calls : calls[i].rc = 0)
    /\ pc = "concat"
         => (Len(calls) = 6 /\ \A i \in DOMAIN calls : calls[i].rc = 0)
    /\ \A i \in DOMAIN calls :
          calls[i].rc # 0
              => (/\ i = Len(calls)
                  /\ pc = "raised"
                  /\ exc.site = 97
                  /\ concat_calls = <<>>)
    /\ \A i, j \in DOMAIN calls : calls[i].infile = calls[j].infile => i = j

C9_Witness ==
    /\ pc = "raised"
    /\ Len(calls) = 3
    /\ calls[3].rc = 1
    /\ calls[1].rc = 0
    /\ concat_calls = <<>>

\* C10 as claimed: the tool is looked for only once the six clips are known to
\* exist, so with clips missing and no tool the failure is the missing-files error.
C10_ValidateFirst ==
    /\ pc = "locate" => exists = RoleSet
    /\ (pc = "raised" /\ exists # RoleSet /\ ffmpeg = NoTool) => exc.site = 157

\* C10 amended: the tool is resolved first and the clips are checked only after
\* it was found, so with clips missing and no tool the failure is the
\* tool-not-found error.
C10_LocateFirst ==
    /\ pc = "validate" => ffmpeg # NoTool
    /\ (pc = "raised" /\ exc.site = 157) => ffmpeg # NoTool
    /\ (pc = "raised" /\ ffmpeg = NoTool) => exc.site = 135

C10_Witness ==
    /\ pc = "raised"
    /\ exists = {"intro"}
    /\ ffmpeg = NoTool
    /\ exc.site = 135

====
